---- MODULE Spec2Model ----
(***************************************************************************)
(* The Buda ingestion agent (src/agent/buda_agent.js) as a state machine.  *)
(*                                                                         *)
(* One BudaAgent lives in one Node process.  JavaScript handlers run to    *)
(* completion, so every handler (start, the connection handler, a socket   *)
(* 'data' event, the signal handler, ...) is one atomic action.            *)
(*                                                                         *)
(* Strings are sequences of tokens (<<"tcp://", "env:27017">>), an absent  *)
(* or empty string is <<>>: the code only ever tests them for truthiness.  *)
(* Bytes are small naturals.  Every byte that travels through the pipeline *)
(* carries the connection it arrived on, [conn |-> c, byte |-> b], so that *)
(* the origin of what a stage consumes can be stated.                      *)
(***************************************************************************)
EXTENDS Integers, Sequences, FiniteSets, TLC

\* ---------------------------------------------------------------- bounds
\* Connections the listener accepts during one run.
MaxConn == 2
\* Bytes received on all sockets together during one run; a chunk is as
\* long as what is left of them allows.
MaxTotalBytes == 2
\* The same, in the runs that follow whole gzip members through the agent.
MaxGzipBytes == 3

\* ------------------------------------------------------------- constants
NULL == "null"

\* Connection identities, in order of acceptance.
Conns == 1..MaxConn

\* The parser instance the concrete agent assigns to this.parser, and the
\* gunzip instance the constructor creates: one of each per agent.
PARSER == "parser#0"
GUNZIP == "gunzip#0"
SERVER == "server#0"

\* Messages of the errors start() throws.
NoParserMsg == "No parser set for the agent"
NoStorageMsg == "No storage available"

\* Record delimiter of the framing parser (a line feed).
Delim == 0
\* Framing of the compressed stream: a member starts with the magic byte,
\* ends with the end-of-stream byte, and carries deflated bytes in between.
GzMagic == 2
GzEos == 3

\* Bytes a client can put on the wire. Without compression every byte that
\* is not the delimiter is payload alike, so 0 and 1 stand for all of them.
Wire(mode) == IF mode = "none" THEN 0..1 ELSE 0..3

\* Raw values of conf.compression handed to the constructor.
RawCompression == {"absent", "none", "gzip", "lz4"}

\* Values of conf.storage.host and of process.env.STORAGE_PORT.
ConfHost == <<"cfg:27017">>
ConfHosts == {<<>>, ConfHost}
EnvHostPart == "env:27017"
EnvValues == {<<>>, <<"tcp://">>, <<"tcp://", EnvHostPart>>, <<"http://", EnvHostPart>>}
DbName == "buda"

\* ------------------------------------------------------------- variables
VARIABLES
  proc,          \* "running" | "exited" | "crashed": the Node process
  exitCode,      \* <<>> while running, else <<the process exit code>>
  parser,        \* this.parser
  incoming,      \* this.incoming
  listening,     \* state of the server behind this.incoming
  rawCompression,\* conf.compression as handed to the constructor
  compression,   \* this.config.compression
  decrompressor, \* this.decrompressor
  storageHost,   \* this.config.storage.host
  envStorage,    \* process.env.STORAGE_PORT
  byteBudget,    \* bytes the sockets receive during this run, at most
  lastStart,     \* outcome of the latest start(): "none", "ok" or the error thrown
  connectCalls,  \* calls of mongoose.connect
  mongoUri,      \* argument of the latest mongoose.connect
  mongoState,    \* "disconnected" | "connecting" | "connected"
  stdout,        \* what process.stdout.write was given, in order
  connState,     \* per connection: "none" | "open" | "closed"
  pipeline,      \* per connection: the stage instances its socket was piped into
  gunzipPipes,   \* how many times the decompressor has been piped into the parser
  sent,          \* per connection: the bytes its socket has received
  gunzipIn,      \* chunks written to the decompressor and not inflated yet
  gunzipState,   \* "header" | "body": where the decompressor is in its stream
  parserIn,      \* every byte written to the parser, in order
  stagesEnded,   \* the stage instances that have been ended
  transformCalls,\* calls of this.transform
  persisted,     \* documents handed to the storage model
  signalAt,      \* lifecycle state in which the termination signal arrived
  signal,        \* the signal that arrived
  shutdownTrace, \* steps of exit() invoked, in order
  thrown,        \* the step of exit() that threw, or "none"
  uncaught       \* what raised the uncaught exception that ended the process

vars == <<proc, exitCode, parser, incoming, listening, rawCompression, compression,
          decrompressor, storageHost, envStorage, byteBudget, lastStart, connectCalls,
          mongoUri, mongoState, stdout, connState, pipeline, gunzipPipes, sent,
          gunzipIn, gunzipState, parserIn, stagesEnded, transformCalls, persisted,
          signalAt, signal, shutdownTrace, thrown, uncaught>>

lifecycleVars == <<parser, incoming, listening, lastStart, connectCalls, mongoUri,
                   mongoState, stdout>>
configVars == <<rawCompression, compression, decrompressor, storageHost, envStorage,
                byteBudget>>
streamVars == <<connState, pipeline, gunzipPipes, sent, gunzipIn, gunzipState,
                parserIn, stagesEnded>>
storeVars == <<transformCalls, persisted>>
exitVars == <<proc, exitCode, signalAt, signal, shutdownTrace, thrown, uncaught>>

\* --------------------------------------------------------------- helpers
Truthy(s) == s /= <<>>

Range(s) == {s[i] : i \in 1..Len(s)}

\* String.prototype.replace with a string pattern: the first occurrence only.
RECURSIVE Replace(_, _)
Replace(s, t) ==
  IF s = <<>> THEN <<>>
  ELSE IF Head(s) = t THEN Tail(s)
  ELSE <<Head(s)>> \o Replace(Tail(s), t)

\* Non-empty sequences over S of length at most n.
SeqsUpTo(S, n) == UNION {[1..k -> S] : k \in 1..n}

Tag(c, chunk) == [i \in 1..Len(chunk) |-> [conn |-> c, byte |-> chunk[i]]]
Bytes(tagged) == [i \in 1..Len(tagged) |-> tagged[i].byte]

RECURSIVE Repeat(_, _)
Repeat(s, k) == IF k = 0 THEN <<>> ELSE s \o Repeat(s, k - 1)

RECURSIVE SumLen(_, _)
SumLen(f, S) ==
  IF S = {} THEN 0
  ELSE LET c == CHOOSE x \in S : TRUE IN Len(f[c]) + SumLen(f, S \ {c})

BytesUsed == SumLen(sent, Conns)

\* The chunks a socket can still receive.
Chunks == SeqsUpTo(Wire(compression), byteBudget - BytesUsed)

\* ----------------------------------------------------------- constructor
\* The constructor without the assignment of its default branch: only an
\* absent value becomes 'none'.
NormalizeCompressionKeepsUnknown(raw) == IF raw = "absent" THEN "none" ELSE raw

\* The switch of the constructor: the normalised compression mode.
NormalizeCompression(raw) == IF raw = "gzip" THEN "gzip" ELSE "none"

MakeDecompressor(raw) == IF raw = "gzip" THEN GUNZIP ELSE NULL

\* The agent after construction, for the given raw configurations,
\* environments and byte budget.
InitWith(raws, hosts, envs, budget) ==
  /\ proc = "running"
  /\ exitCode = <<>>
  /\ parser = NULL
  /\ incoming = NULL
  /\ listening = "none"
  /\ rawCompression \in raws
  /\ compression = NormalizeCompression(rawCompression)
  /\ decrompressor = MakeDecompressor(rawCompression)
  /\ storageHost \in hosts
  /\ envStorage \in envs
  /\ byteBudget = budget
  /\ lastStart = "none"
  /\ connectCalls = 0
  /\ mongoUri = <<>>
  /\ mongoState = "disconnected"
  /\ stdout = <<>>
  /\ connState = [c \in Conns |-> "none"]
  /\ pipeline = [c \in Conns |-> [gunzip |-> NULL, parser |-> NULL]]
  /\ gunzipPipes = 0
  /\ sent = [c \in Conns |-> <<>>]
  /\ gunzipIn = <<>>
  /\ gunzipState = "header"
  /\ parserIn = <<>>
  /\ stagesEnded = {}
  /\ transformCalls = 0
  /\ persisted = <<>>
  /\ signalAt = "none"
  /\ signal = "none"
  /\ shutdownTrace = <<>>
  /\ thrown = "none"
  /\ uncaught = "none"

Init == InitWith(RawCompression, ConfHosts, EnvValues, MaxTotalBytes)

\* The agent configured for gzip, with a storage host, and room for a whole
\* gzip member on the wire.
InitGzip == InitWith({"gzip"}, {ConfHost}, {<<>>}, MaxGzipBytes)

\* The concrete agent's constructor assigns its parser after BudaAgent.call.
SetParser ==
  /\ proc = "running"
  /\ parser = NULL
  /\ parser' = PARSER
  /\ UNCHANGED <<incoming, listening, lastStart, connectCalls, mongoUri, mongoState,
                 stdout>>
  /\ UNCHANGED <<configVars, streamVars, storeVars, exitVars>>

\* ------------------------------------------------------------- lifecycle
\* Section 4.5's states, read off the agent's fields.
Lifecycle ==
  IF proc /= "running" THEN "Terminated"
  ELSE IF incoming = NULL THEN "Created"
  ELSE IF listening = "listening" /\ mongoState = "connected" THEN "Running"
  ELSE "Starting"

\* connectStorage, the address: the environment value without its first
\* 'tcp://', overridden by the configured host.
ResolveStorageEnvWins(env, host) ==
  LET fromConf == IF Truthy(host) THEN host ELSE <<>>
  IN IF Truthy(env) THEN Replace(env, "tcp://") ELSE fromConf

ResolveStorage(env, host) ==
  LET fromEnv == IF Truthy(env) THEN Replace(env, "tcp://") ELSE <<>>
  IN IF Truthy(host) THEN host ELSE fromEnv

\* connectStorage, the URI handed to mongoose.connect.
StorageUri(storage) == <<"mongodb://">> \o storage \o <<"/", DbName>>

\* log: an object is serialised, anything else is written as it is.
JSONstringify(msg) == <<"{">> \o msg.val \o <<"}">>
log(msg) == IF msg.isObject THEN JSONstringify(msg) ELSE msg.val
AgentReady == [isObject |-> FALSE, val |-> <<"Agent ready">>]

\* start() with the parser check placed after the storage connection.
startChecksParserLate ==
  /\ proc = "running"
  /\ incoming = NULL
  /\ LET storage == ResolveStorage(envStorage, storageHost) IN
     IF ~Truthy(storage)
       THEN /\ lastStart' = NoStorageMsg
            /\ UNCHANGED <<incoming, listening, connectCalls, mongoUri, mongoState>>
       ELSE /\ connectCalls' = connectCalls + 1
            /\ mongoUri' = StorageUri(storage)
            /\ mongoState' = "connecting"
            /\ IF parser = NULL
                 THEN /\ lastStart' = NoParserMsg
                      /\ UNCHANGED <<incoming, listening>>
                 ELSE /\ lastStart' = "ok"
                      /\ incoming' = SERVER
                      /\ listening' = "binding"
  /\ UNCHANGED <<parser, stdout>>
  /\ UNCHANGED <<configVars, streamVars, storeVars, exitVars>>

\* start() with the server created before the storage connection.
startCreatesServerFirst ==
  /\ proc = "running"
  /\ incoming = NULL
  /\ IF parser = NULL
       THEN /\ lastStart' = NoParserMsg
            /\ UNCHANGED <<incoming, listening, connectCalls, mongoUri, mongoState>>
       ELSE LET storage == ResolveStorage(envStorage, storageHost) IN
            /\ incoming' = SERVER
            /\ IF ~Truthy(storage)
                 THEN /\ lastStart' = NoStorageMsg
                      /\ UNCHANGED <<listening, connectCalls, mongoUri, mongoState>>
                 ELSE /\ lastStart' = "ok"
                      /\ connectCalls' = connectCalls + 1
                      /\ mongoUri' = StorageUri(storage)
                      /\ mongoState' = "connecting"
                      /\ listening' = "binding"
  /\ UNCHANGED <<parser, stdout>>
  /\ UNCHANGED <<configVars, streamVars, storeVars, exitVars>>

\* start(): the parser check, connectStorage, createServer, listen. The spec
\* leaves a second start() after a successful one undefined; the agent is
\* started again only after a start() that threw.
start ==
  /\ proc = "running"
  /\ incoming = NULL
  /\ IF parser = NULL
       THEN /\ lastStart' = NoParserMsg
            /\ UNCHANGED <<incoming, listening, connectCalls, mongoUri, mongoState>>
       ELSE LET storage == ResolveStorage(envStorage, storageHost) IN
            IF ~Truthy(storage)
              THEN /\ lastStart' = NoStorageMsg
                   /\ UNCHANGED <<incoming, listening, connectCalls, mongoUri,
                                  mongoState>>
              ELSE /\ lastStart' = "ok"
                   /\ connectCalls' = connectCalls + 1
                   /\ mongoUri' = StorageUri(storage)
                   /\ mongoState' = "connecting"
                   /\ incoming' = SERVER
                   /\ listening' = "binding"
  /\ UNCHANGED <<parser, stdout>>
  /\ UNCHANGED <<configVars, streamVars, storeVars, exitVars>>

\* The callback of listen(): the server is bound, the agent logs it is ready.
ListenCallback ==
  /\ proc = "running"
  /\ listening = "binding"
  /\ listening' = "listening"
  /\ stdout' = Append(stdout, log(AgentReady))
  /\ UNCHANGED <<parser, incoming, lastStart, connectCalls, mongoUri, mongoState>>
  /\ UNCHANGED <<configVars, streamVars, storeVars, exitVars>>

\* The process ends: its sockets and stream objects are gone with it.
StreamsGone ==
  /\ connState' = [c \in Conns |-> "none"]
  /\ pipeline' = [c \in Conns |-> [gunzip |-> NULL, parser |-> NULL]]
  /\ gunzipPipes' = 0
  /\ sent' = [c \in Conns |-> <<>>]
  /\ gunzipIn' = <<>>
  /\ gunzipState' = "header"
  /\ parserIn' = <<>>
  /\ stagesEnded' = {}

\* An 'error' event nobody listens to, or an exception nobody catches: the
\* process ends with a non-zero code.
Crash(cause) ==
  /\ proc' = "crashed"
  /\ exitCode' = <<1>>
  /\ uncaught' = cause
  /\ StreamsGone
  /\ UNCHANGED <<signalAt, signal, shutdownTrace, thrown>>

\* mongoose.connect is asynchronous: the connection opens, or fails, later.
\* No callback and no 'error' listener is given: depending on the mongoose
\* release a failure is dropped silently or emitted as an 'error' event
\* nobody listens to, which ends the process.
MongoOpen ==
  /\ proc = "running"
  /\ mongoState = "connecting"
  /\ mongoState' = "connected"
  /\ UNCHANGED <<parser, incoming, listening, lastStart, connectCalls, mongoUri,
                 stdout>>
  /\ UNCHANGED <<configVars, streamVars, storeVars, exitVars>>

MongoFail ==
  /\ proc = "running"
  /\ mongoState = "connecting"
  /\ mongoState' = "disconnected"
  /\ \E fatal \in BOOLEAN :
       IF fatal THEN Crash("mongoose")
       ELSE UNCHANGED <<streamVars, exitVars>>
  /\ UNCHANGED <<parser, incoming, listening, lastStart, connectCalls, mongoUri,
                 stdout>>
  /\ UNCHANGED <<configVars, storeVars>>

\* -------------------------------------------------------------- pipeline
\* The decompressor on one byte: [st |-> its next state, out |-> what it emits].
\* A byte that cannot come next in a gzip stream makes it raise an error.
Inflate(b) == 1 - b

GunzipByte(st, b) ==
  IF st = "header"
    THEN IF b = GzMagic THEN [st |-> "body", out |-> <<>>]
         ELSE [st |-> "error", out |-> <<>>]
  ELSE IF b = GzEos THEN [st |-> "header", out |-> <<>>]
  ELSE IF b = GzMagic THEN [st |-> "error", out |-> <<>>]
  ELSE [st |-> "body", out |-> <<Inflate(b)>>]

\* The decompressor on one chunk of tagged bytes.
RECURSIVE GunzipChunk(_, _)
GunzipChunk(st, chunk) ==
  IF chunk = <<>> \/ st = "error" THEN [st |-> st, out |-> <<>>]
  ELSE LET one == GunzipByte(st, Head(chunk).byte)
           rest == GunzipChunk(one.st, Tail(chunk))
       IN [st |-> rest.st, out |-> Tag(Head(chunk).conn, one.out) \o rest.out]

\* The connection handler of createServer: the socket is piped into the
\* agent's decompressor and that into the agent's parser, or the socket
\* straight into the parser. Every call pipes the decompressor into the
\* parser once more.
Accept(c) ==
  /\ proc = "running"
  /\ listening = "listening"
  /\ connState[c] = "none"
  /\ \A d \in Conns : d < c => connState[d] /= "none"
  /\ connState' = [connState EXCEPT ![c] = "open"]
  /\ IF compression /= "none"
       THEN /\ pipeline' = [pipeline EXCEPT ![c] = [gunzip |-> decrompressor,
                                                     parser |-> parser]]
            /\ gunzipPipes' = gunzipPipes + 1
       ELSE /\ pipeline' = [pipeline EXCEPT ![c] = [gunzip |-> NULL,
                                                     parser |-> parser]]
            /\ UNCHANGED gunzipPipes
  /\ UNCHANGED <<sent, gunzipIn, gunzipState, parserIn, stagesEnded>>
  /\ UNCHANGED <<lifecycleVars, configVars, storeVars, exitVars>>

\* The stage a connection's socket is piped into.
FirstStage(c) ==
  IF pipeline[c].gunzip /= NULL THEN pipeline[c].gunzip ELSE pipeline[c].parser

\* A 'data' event whose chunk is put in front of what the parser was given.
SocketDataPrepends(c, chunk) ==
  /\ proc = "running"
  /\ connState[c] = "open"
  /\ Len(chunk) <= byteBudget - BytesUsed
  /\ IF FirstStage(c) \in stagesEnded
       THEN Crash("write after end")
       ELSE /\ sent' = [sent EXCEPT ![c] = @ \o chunk]
            /\ IF pipeline[c].gunzip /= NULL
                 THEN /\ gunzipIn' = Append(gunzipIn, Tag(c, chunk))
                      /\ UNCHANGED parserIn
                 ELSE /\ parserIn' = Tag(c, chunk) \o parserIn
                      /\ UNCHANGED gunzipIn
            /\ UNCHANGED <<connState, pipeline, gunzipPipes, gunzipState,
                           stagesEnded>>
            /\ UNCHANGED exitVars
  /\ UNCHANGED <<lifecycleVars, configVars, storeVars>>

\* A 'data' event of a piped socket: the chunk is written to the stage the
\* socket is piped into. A write to a stage that has been ended is an error
\* of that stage, which nobody listens to.
SocketData(c, chunk) ==
  /\ proc = "running"
  /\ connState[c] = "open"
  /\ Len(chunk) <= byteBudget - BytesUsed
  /\ IF FirstStage(c) \in stagesEnded
       THEN Crash("write after end")
       ELSE /\ sent' = [sent EXCEPT ![c] = @ \o chunk]
            /\ IF pipeline[c].gunzip /= NULL
                 THEN /\ gunzipIn' = Append(gunzipIn, Tag(c, chunk))
                      /\ UNCHANGED parserIn
                 ELSE /\ parserIn' = parserIn \o Tag(c, chunk)
                      /\ UNCHANGED gunzipIn
            /\ UNCHANGED <<connState, pipeline, gunzipPipes, gunzipState,
                           stagesEnded>>
            /\ UNCHANGED exitVars
  /\ UNCHANGED <<lifecycleVars, configVars, storeVars>>

\* The decompressor has inflated its oldest pending chunk: every pipe into
\* the parser writes the output once. An error of the decompressor has no
\* listener: it is an uncaught exception, which ends the process.
GunzipStep ==
  /\ proc = "running"
  /\ gunzipIn /= <<>>
  /\ LET r == GunzipChunk(gunzipState, Head(gunzipIn)) IN
     IF r.st = "error"
       THEN Crash("gunzip")
       ELSE /\ gunzipIn' = Tail(gunzipIn)
            /\ gunzipState' = r.st
            /\ parserIn' = parserIn \o Repeat(r.out, gunzipPipes)
            /\ UNCHANGED <<connState, pipeline, gunzipPipes, sent, stagesEnded>>
            /\ UNCHANGED exitVars
  /\ UNCHANGED <<lifecycleVars, configVars, storeVars>>

\* The socket ends, with pipes made without end: false: the stages the
\* socket feeds are ended with it.
SocketEndEndsStages(c) ==
  /\ proc = "running"
  /\ connState[c] = "open"
  /\ connState' = [connState EXCEPT ![c] = "closed"]
  /\ stagesEnded' = stagesEnded \cup {FirstStage(c), pipeline[c].parser}
  /\ UNCHANGED <<pipeline, gunzipPipes, sent, gunzipIn, gunzipState, parserIn>>
  /\ UNCHANGED <<lifecycleVars, configVars, storeVars, exitVars>>

\* The socket ends. Both pipes were made with end: false, so no stage is
\* ended with it.
SocketEnd(c) ==
  /\ proc = "running"
  /\ connState[c] = "open"
  /\ connState' = [connState EXCEPT ![c] = "closed"]
  /\ UNCHANGED stagesEnded
  /\ UNCHANGED <<pipeline, gunzipPipes, sent, gunzipIn, gunzipState, parserIn>>
  /\ UNCHANGED <<lifecycleVars, configVars, storeVars, exitVars>>

\* ------------------------------------------------------ parser, transform
\* The parser is supplied by the concrete agent. Its records are the spans
\* of its input that end with the delimiter, the delimiter left out.
RECURSIVE ParseFrom(_, _)
ParseFrom(bytes, cur) ==
  IF bytes = <<>> THEN <<>>
  ELSE IF Head(bytes) = Delim THEN <<cur>> \o ParseFrom(Tail(bytes), <<>>)
  ELSE ParseFrom(Tail(bytes), Append(cur, Head(bytes)))

Parse(bytes) == ParseFrom(bytes, <<>>)

\* The records the agent's parser has emitted so far.
Records == Parse(Bytes(parserIn))

\* The default transform hook. Nothing in the agent calls it, and nothing
\* hands a document to the storage model: no action changes transformCalls
\* or persisted.
transform(record) == record

\* --------------------------------------------------------------- shutdown
Signals == {"SIGINT", "SIGTERM"}
\* The call of exit() that throws, if any.
Failures == {"none", "close", "disconnect", "cleanup"}

\* exit() with the storage disconnected before the listener is closed.
exitDisconnectsFirst(sig, fail) ==
  LET closeRuns == incoming /= NULL
      closeThrows == closeRuns /\ fail = "close"
      disconnectThrows == fail = "disconnect"
      cleanupRuns == ~disconnectThrows /\ ~closeThrows
      exitRuns == cleanupRuns /\ fail /= "cleanup"
  IN /\ proc = "running"
     /\ fail = "close" => closeRuns
     /\ signal' = sig
     /\ signalAt' = Lifecycle
     /\ thrown' = fail
     /\ shutdownTrace' = <<"disconnect">>
                         \o (IF closeRuns /\ ~disconnectThrows THEN <<"close">> ELSE <<>>)
                         \o (IF cleanupRuns THEN <<"cleanup">> ELSE <<>>)
                         \o (IF exitRuns THEN <<"exit">> ELSE <<>>)
     /\ listening' = IF closeRuns /\ ~disconnectThrows /\ ~closeThrows
                       THEN "closed" ELSE listening
     /\ mongoState' = IF ~disconnectThrows THEN "disconnected" ELSE mongoState
     /\ proc' = IF exitRuns THEN "exited" ELSE "crashed"
     /\ exitCode' = IF exitRuns THEN <<0>> ELSE <<1>>
     /\ uncaught' = IF exitRuns THEN "none" ELSE "exit"
     /\ StreamsGone
     /\ UNCHANGED <<parser, incoming, lastStart, connectCalls, mongoUri, stdout>>
     /\ UNCHANGED <<configVars, storeVars>>

\* The handler of SIGINT and of SIGTERM: close the listener if there is one,
\* disconnect the storage, run the cleanup hook, exit. Nothing catches what
\* a step throws: the steps after it are skipped and the uncaught exception
\* ends the process with a non-zero code.
exit(sig, fail) ==
  LET closeRuns == incoming /= NULL
      closeThrows == closeRuns /\ fail = "close"
      disconnectRuns == ~closeThrows
      disconnectThrows == disconnectRuns /\ fail = "disconnect"
      cleanupRuns == disconnectRuns /\ ~disconnectThrows
      cleanupThrows == cleanupRuns /\ fail = "cleanup"
      exitRuns == cleanupRuns /\ ~cleanupThrows
  IN /\ proc = "running"
     /\ fail = "close" => closeRuns
     /\ signal' = sig
     /\ signalAt' = Lifecycle
     /\ thrown' = fail
     /\ shutdownTrace' = (IF closeRuns THEN <<"close">> ELSE <<>>)
                         \o (IF disconnectRuns THEN <<"disconnect">> ELSE <<>>)
                         \o (IF cleanupRuns THEN <<"cleanup">> ELSE <<>>)
                         \o (IF exitRuns THEN <<"exit">> ELSE <<>>)
     /\ listening' = IF closeRuns /\ ~closeThrows THEN "closed" ELSE listening
     /\ mongoState' = IF disconnectRuns /\ ~disconnectThrows
                        THEN "disconnected" ELSE mongoState
     /\ proc' = IF exitRuns THEN "exited" ELSE "crashed"
     /\ exitCode' = IF exitRuns THEN <<0>> ELSE <<1>>
     /\ uncaught' = IF exitRuns THEN "none" ELSE "exit"
     /\ StreamsGone
     /\ UNCHANGED <<parser, incoming, lastStart, connectCalls, mongoUri, stdout>>
     /\ UNCHANGED <<configVars, storeVars>>

\* ---------------------------------------------------------- specification
Next ==
  \/ SetParser
  \/ start
  \/ ListenCallback
  \/ MongoOpen
  \/ MongoFail
  \/ \E c \in Conns : Accept(c)
  \/ \E c \in Conns : \E chunk \in Chunks : SocketData(c, chunk)
  \/ GunzipStep
  \/ \E c \in Conns : SocketEnd(c)
  \/ \E sig \in Signals : \E fail \in Failures : exit(sig, fail)

Spec == Init /\ [][Next]_vars

SpecGzip == InitGzip /\ [][Next]_vars

\* ========================================================== properties

\* The input of a parser instance: the agent has one parser, this.parser.
ParserInput(p) == IF p = parser THEN parserIn ELSE <<>>

\* The connections whose bytes a parser instance has consumed.
Feeders(p) == {ParserInput(p)[i].conn : i \in 1..Len(ParserInput(p))}

\* C1: any two connections that are open at the same time are piped into
\* distinct parser instances and, with compression, into distinct
\* decompressor instances, and the parser of the one has consumed no byte
\* of the other.
C1_OwnPipelinePerConnection ==
  \A a, b \in Conns :
    (a /= b /\ connState[a] = "open" /\ connState[b] = "open") =>
      /\ pipeline[a].parser /= pipeline[b].parser
      /\ compression /= "none" => pipeline[a].gunzip /= pipeline[b].gunzip
      /\ b \notin Feeders(pipeline[a].parser)

\* What the stream of connection c yields when it is alone on the agent.
AloneInput(c) ==
  IF compression = "none" THEN sent[c]
  ELSE Bytes(GunzipChunk("header", Tag(c, sent[c])).out)

\* C2: once nothing is pending in the decompressor, the records produced by
\* the parser a connection is piped into are the records its own byte
\* stream yields alone, in order, whatever the other connections sent.
C2_RecordsAsIfAlone ==
  \A c \in Conns :
    (proc = "running" /\ connState[c] /= "none" /\ gunzipIn = <<>>) =>
      Parse(Bytes(ParserInput(pipeline[c].parser))) = Parse(AloneInput(c))

\* C3: while the agent is Running and nothing is pending in the
\* decompressor, every record the parser has emitted has gone through the
\* transform hook once and its document has been handed to the storage.
C3_EveryRecordTransformedAndPersisted ==
  (Lifecycle = "Running" /\ gunzipIn = <<>>) =>
    /\ transformCalls = Len(Records)
    /\ persisted = [i \in 1..Len(Records) |-> transform(Records[i])]

\* C4: in a step that starts and ends with the storage unable to accept
\* documents (its connection is not open), no socket is read, the
\* decompressor is not drained and the parser is not fed.
C4_BackpressureFromStorage ==
  [][(proc = "running" /\ proc' = "running"
      /\ mongoState /= "connected" /\ mongoState' /= "connected")
       => (sent' = sent /\ gunzipIn' = gunzipIn /\ parserIn' = parserIn)]_vars

\* C5: without a parser start() can only fail, with the no-parser error, and
\* after that failure no storage connection has been attempted, no server
\* has been created and the listener handle is null.
C5_NoParserNoSideEffect ==
  /\ parser = NULL => lastStart \in {"none", NoParserMsg}
  /\ (parser = NULL \/ lastStart = NoParserMsg) =>
       /\ connectCalls = 0
       /\ mongoUri = <<>>
       /\ mongoState = "disconnected"
       /\ incoming = NULL
       /\ listening = "none"

C5_Witness == lastStart = NoParserMsg /\ parser = NULL

\* Neither the configuration nor the environment yields a storage address.
NoAddress ==
  /\ storageHost = <<>>
  /\ envStorage \in {<<>>, <<"tcp://">>}

\* C6: with a parser set and no storage address from either source start()
\* fails with the storage error; after that failure no storage connection
\* has been attempted and no listener exists. The storage error is thrown
\* in no other case.
C6_NoStorageTargetFails ==
  /\ lastStart = NoStorageMsg => (parser /= NULL /\ NoAddress)
  /\ NoAddress =>
       /\ lastStart /= "ok"
       /\ connectCalls = 0
       /\ mongoState = "disconnected"
       /\ incoming = NULL
       /\ listening = "none"

C6_Witness == lastStart = NoStorageMsg /\ parser /= NULL /\ NoAddress

\* C7: the storage is connected at the configured host whenever one is
\* configured, whatever the environment holds; the environment's address
\* is in the URI only when no host is configured.
C7_ConfigHostWins ==
  connectCalls > 0 =>
    /\ Truthy(storageHost) => mongoUri = <<"mongodb://">> \o storageHost \o <<"/", DbName>>
    /\ EnvHostPart \in Range(mongoUri) => ~Truthy(storageHost)
    /\ (~Truthy(storageHost)) => EnvHostPart \in Range(mongoUri)

C7_Witness ==
  connectCalls > 0 /\ Truthy(storageHost) /\ EnvHostPart \in Range(envStorage)

\* The steps of the shutdown sequence, in the order section 4.5 gives them;
\* the listener is closed only if there is one.
FullShutdown(at) ==
  IF at = "Created" THEN <<"disconnect", "cleanup", "exit">>
  ELSE <<"close", "disconnect", "cleanup", "exit">>

IsPrefix(p, s) == Len(p) <= Len(s) /\ SubSeq(s, 1, Len(p)) = p

Count(s, x) == Cardinality({i \in 1..Len(s) : s[i] = x})

\* C8: after a termination signal, of either kind, the steps of the
\* shutdown that were taken are an initial part of: close the listener,
\* disconnect the storage, run the cleanup hook, exit the process; all of
\* them were taken when none threw; the process has ended and no
\* connection can be accepted any more.
C8_ShutdownOrder ==
  signal /= "none" =>
    /\ shutdownTrace /= <<>>
    /\ IsPrefix(shutdownTrace, FullShutdown(signalAt))
    /\ thrown = "none" => (shutdownTrace = FullShutdown(signalAt) /\ proc = "exited")
    /\ proc /= "running"
    /\ \A c \in Conns : ~ENABLED Accept(c)

C8_Witness ==
  /\ signal = "SIGTERM"
  /\ signalAt = "Running"
  /\ shutdownTrace = <<"close", "disconnect", "cleanup", "exit">>
  /\ listening = "closed"
  /\ proc = "exited"

\* C9: once a termination signal has arrived while Running, the storage has
\* been disconnected exactly once, the cleanup hook has been invoked
\* exactly once and the process has exited with code 0.
C9_ShutdownExactlyOnce ==
  signalAt = "Running" =>
    /\ Count(shutdownTrace, "disconnect") = 1
    /\ Count(shutdownTrace, "cleanup") = 1
    /\ proc = "exited"
    /\ exitCode = <<0>>

\* C10: when a step of the shutdown throws, every step after it has still
\* been taken and the process has been exited by the last one.
C10_ShutdownBestEffort ==
  thrown /= "none" =>
    /\ shutdownTrace = FullShutdown(signalAt)
    /\ proc = "exited"

\* C11: an error of the decompressor never ends the process: whatever a
\* connection sends, the agent keeps running for the other connections.
C11_DecompressionErrorIsolated == uncaught /= "gunzip"

\* C12: the readiness line is written only when the listener is accepting and
\* the storage connection is established, and after a storage connection that
\* failed the agent accepts no connection.
C12_ReadyOnlyWithStorage ==
  [][ /\ (stdout' /= stdout =>
            listening' = "listening" /\ mongoState' = "connected")
      /\ \A c \in Conns :
           (connState[c] /= "open" /\ connState'[c] = "open") =>
             ~(connectCalls > 0 /\ mongoState = "disconnected") ]_vars

\* C13: whatever the raw compression value, the configured mode is 'none' or
\* 'gzip', every value but 'gzip' gives 'none', the decompressor exists exactly
\* in mode 'gzip', and a connection accepted in a mode other than 'none' is
\* piped into a decompressor that exists.
C13_CompressionNormalised ==
  /\ compression \in {"none", "gzip"}
  /\ (rawCompression = "gzip") <=> (compression = "gzip")
  /\ (decrompressor /= NULL) <=> (compression = "gzip")
  /\ \A c \in Conns :
       (connState[c] /= "none" /\ compression /= "none") =>
         pipeline[c].gunzip /= NULL

C13_Witness ==
  /\ rawCompression = "lz4"
  /\ compression = "none"
  /\ \E c \in Conns : connState[c] = "open" /\ pipeline[c].gunzip = NULL

\* A payload as one gzip member on the wire, and the payloads that fit.
Gzip(p) == <<GzMagic>> \o [i \in 1..Len(p) |-> 1 - p[i]] \o <<GzEos>>
Payloads == UNION {[1..k -> Wire("none")] : k \in 0..(MaxGzipBytes - 2)}

\* The bytes the parser has been given that came from connection c.
Delivered(c) == Bytes(SelectSeq(parserIn, LAMBDA t : t.conn = c))

\* C14: in mode 'gzip', once a connection has sent a payload as a gzip member
\* and the decompressor has worked it off, the parser has been given, for
\* that connection, the payload itself: what mode 'none' delivers for the
\* uncompressed payload. This holds for every accepted connection.
C14_GzipSameAsNone ==
  \A c \in Conns : \A p \in Payloads :
    (proc = "running" /\ compression = "gzip" /\ sent[c] = Gzip(p)
       /\ gunzipIn = <<>>)
      => Delivered(c) = p

\* C15: in mode 'none' the parser has been given, for every connection, exactly
\* the bytes its socket received, in the order it received them.
C15_NoneDeliversUnmodified ==
  (proc = "running" /\ compression = "none") =>
    \A c \in Conns : Delivered(c) = sent[c]

C15_Witness ==
  /\ proc = "running"
  /\ compression = "none"
  /\ \E c \in Conns :
       /\ Len(sent[c]) >= 2
       /\ sent[c][1] /= sent[c][2]
       /\ Delivered(c) = sent[c]

\* The scheme prefixes an environment value can carry.
Schemes == {"tcp://", "http://"}

\* C16: when the storage address is taken from the environment, the address
\* handed to mongoose carries no scheme prefix of the environment value.
C16_EnvSchemeStripped ==
  (connectCalls > 0 /\ ~Truthy(storageHost) /\ Truthy(envStorage)) =>
    \A i \in 2..Len(mongoUri) : mongoUri[i] \notin Schemes

\* C17: everything log has written to standard output is one JSON object
\* followed by a newline.
C17_LogWritesJsonLine ==
  \A i \in 1..Len(stdout) :
    LET line == stdout[i] IN
    /\ Len(line) >= 3
    /\ line[1] = "{"
    /\ line[Len(line) - 1] = "}"
    /\ line[Len(line)] = "\n"

\* C18: once a termination signal has arrived while the agent had no listener
\* yet, the close of the listener was skipped, the storage was disconnected
\* once, the cleanup hook was invoked once and the process has exited.
C18_SignalBeforeListener ==
  (signal /= "none" /\ incoming = NULL) =>
    /\ shutdownTrace = <<"disconnect", "cleanup", "exit">>
    /\ proc = "exited"

\* C19: no stage is ever ended by the end of a socket, no write ever meets an
\* ended stage, and in mode 'none', after a connection has closed, the parser
\* has still been given everything every connection has sent.
C19_SocketEndKeepsStagesOpen ==
  /\ stagesEnded = {}
  /\ uncaught /= "write after end"
  /\ (proc = "running" /\ compression = "none"
        /\ \E d \in Conns : connState[d] = "closed")
       => \A c \in Conns : Delivered(c) = sent[c]

C19_Witness ==
  /\ proc = "running"
  /\ connState[1] = "closed"
  /\ connState[2] = "open"
  /\ sent[2] /= <<>>
  /\ Delivered(2) = sent[2]
  /\ stagesEnded = {}

====
